---- MODULE Spec2Model ----
(***************************************************************************)
(* Model of src/minesweeper.py: the Minesweeper board, the Sentence class  *)
(* and the MinesweeperAI knowledge engine.                                 *)
(*                                                                         *)
(* A cell is a pair <<i, j>> with 0 <= i < height and 0 <= j < width.      *)
(* A sentence is a record [cells, count].  The engine is the record        *)
(* [moves_made, mines, safes, knowledge] (knowledge is a list).            *)
(***************************************************************************)
EXTENDS Integers, Sequences, FiniteSets, TLC

\* ------------------------------------------------------------- bounds
\* boards: every height x width with height <= MaxSide, width <= MaxSide
\* and height * width <= MaxCells
MaxSide == 3
MaxCells == 9
\* most add_knowledge calls in one game
MaxCalls == 3
\* most cells of a free-standing Sentence
MaxLen == 2
\* most calls made on an engine driven directly, without a game
MaxDirectCalls == 2
\* largest count handed to add_knowledge by a direct caller
MaxCount == 4

VARIABLES
    height,       \* Minesweeper.height and MinesweeperAI.height
    width,        \* Minesweeper.width and MinesweeperAI.width
    board,        \* Minesweeper.mines: the true mine cells
    moves_made,   \* MinesweeperAI.moves_made
    mines,        \* MinesweeperAI.mines
    safes,        \* MinesweeperAI.safes
    knowledge,    \* MinesweeperAI.knowledge: list of sentences
    calls,        \* number of state-changing engine calls made so far
    last,         \* the last call: [op, cell, count, ret]
    sen,          \* a free-standing Sentence object (Sentence-level runs)
    before        \* that Sentence as it was when its last mark_* call began

vars == <<height, width, board, moves_made, mines, safes, knowledge, calls, last, sen, before>>

\* The cells of the board: (i, j) for i in range(height), j in range(width).
Cells == (0 .. height - 1) \X (0 .. width - 1)

\* What a call gave back: a cell, a set of cells, None, or an exception.
NoCell == <<-1, -1>>
None == [kind |-> "None", cell |-> NoCell, cells |-> {}]
TypeError == [kind |-> "TypeError", cell |-> NoCell, cells |-> {}]
AttributeError == [kind |-> "AttributeError", cell |-> NoCell, cells |-> {}]
ACell(c) == [kind |-> "cell", cell |-> c, cells |-> {}]
ASet(S) == [kind |-> "set", cell |-> NoCell, cells |-> S]

\* ---------------------------------------------------------- Minesweeper

\* Minesweeper.is_mine
is_mine(b, cell) == cell \in b

\* Minesweeper.nearby_mines: mines within one row and column of the cell,
\* the cell itself excluded, out-of-bounds positions ignored.
nearby_mines(b, cell) ==
    Cardinality({ c \in ((cell[1] - 1) .. (cell[1] + 1)) \X ((cell[2] - 1) .. (cell[2] + 1)) :
                    /\ c # cell
                    /\ 0 <= c[1] /\ c[1] < height /\ 0 <= c[2] /\ c[2] < width
                    /\ is_mine(b, c) })

\* ------------------------------------------------------------- Sentence

Sentence(cells, count) == [cells |-> cells, count |-> count]

\* Sentence.known_mines (the body tests count == 0)
known_mines(s) == IF s.count = 0 THEN s.cells ELSE {}

\* Sentence.known_safes (the body tests count > 0 and count == len(cells))
known_safes(s) ==
    IF s.count > 0 /\ s.count = Cardinality(s.cells) THEN s.cells ELSE {}

\* Sentence.mark_mine that discards the cell and forgets "self.count -= 1"
Sentence_mark_mine_keeps_count(s, cell) ==
    IF cell \in s.cells
    THEN Sentence(s.cells \ {cell}, s.count)
    ELSE s

\* Sentence.mark_mine without the membership test: the count drops on
\* every call
Sentence_mark_mine_always(s, cell) ==
    Sentence(s.cells \ {cell}, s.count - 1)

\* Sentence.mark_mine
Sentence_mark_mine(s, cell) ==
    IF cell \in s.cells
    THEN Sentence(s.cells \ {cell}, s.count - 1)
    ELSE s

\* Sentence.mark_safe with the "self.count -= 1" of mark_mine copied in
Sentence_mark_safe_decrements(s, cell) ==
    IF cell \in s.cells
    THEN Sentence(s.cells \ {cell}, s.count - 1)
    ELSE s

\* Sentence.mark_safe
Sentence_mark_safe(s, cell) ==
    IF cell \in s.cells
    THEN Sentence(s.cells \ {cell}, s.count)
    ELSE s

\* -------------------------------------------------------- MinesweeperAI

\* MinesweeperAI.__init__
NewAI == [moves_made |-> {}, mines |-> {}, safes |-> {}, knowledge |-> <<>>]

\* MinesweeperAI.mark_mine that updates only the newest sentence instead of
\* every sentence in knowledge
mark_mine_newest_only(st, cell) ==
    [st EXCEPT !.mines = @ \cup {cell},
               !.moves_made = @ \cup {cell},
               !.knowledge = [i \in 1 .. Len(@) |->
                   IF i = Len(@) THEN Sentence_mark_mine(@[i], cell) ELSE @[i]]]

\* MinesweeperAI.mark_mine
mark_mine(st, cell) ==
    [st EXCEPT !.mines = @ \cup {cell},
               !.moves_made = @ \cup {cell},
               !.knowledge = [i \in 1 .. Len(@) |-> Sentence_mark_mine(@[i], cell)]]

\* MinesweeperAI.mark_safe
mark_safe(st, cell) ==
    [st EXCEPT !.safes = @ \cup {cell},
               !.knowledge = [i \in 1 .. Len(@) |-> Sentence_mark_safe(@[i], cell)]]

\* get_neighboring_cells with the lower-right diagonal test left out
get_neighboring_cells_no_lower_right(cell) ==
    { c \in { <<cell[1] - 1, cell[2]>>,
              <<cell[1] + 1, cell[2]>>,
              <<cell[1], cell[2] - 1>>,
              <<cell[1] - 1, cell[2] - 1>>,
              <<cell[1] + 1, cell[2] - 1>>,
              <<cell[1], cell[2] + 1>>,
              <<cell[1] - 1, cell[2] + 1>> } :
        c \in Cells }

\* MinesweeperAI.get_neighboring_cells: the eight positions around the cell,
\* each kept when it is one of the board's cells.
get_neighboring_cells(cell) ==
    { c \in { <<cell[1] - 1, cell[2]>>,          \* upper
              <<cell[1] + 1, cell[2]>>,          \* lower
              <<cell[1], cell[2] - 1>>,          \* left
              <<cell[1] - 1, cell[2] - 1>>,      \* upper-left
              <<cell[1] + 1, cell[2] - 1>>,      \* lower-left
              <<cell[1], cell[2] + 1>>,          \* right
              <<cell[1] - 1, cell[2] + 1>>,      \* upper-right
              <<cell[1] + 1, cell[2] + 1>> } :   \* lower-right
        c \in Cells }

\* check_which_neighbor_cells_are_safe returning every neighbour, the known
\* mines included, when the count is met
check_which_neighbor_cells_are_safe_all(st, cell, count) ==
    LET neighboring_cells == get_neighboring_cells(cell)
        neighboring_cells_that_are_mines == neighboring_cells \cap st.mines
    IN  IF count = Cardinality(neighboring_cells_that_are_mines)
        THEN neighboring_cells
        ELSE {}

\* MinesweeperAI.check_which_neighbor_cells_are_safe
check_which_neighbor_cells_are_safe(st, cell, count) ==
    LET neighboring_cells == get_neighboring_cells(cell)
        neighboring_cells_that_are_mines == neighboring_cells \cap st.mines
    IN  IF count = Cardinality(neighboring_cells_that_are_mines)
        THEN neighboring_cells \ neighboring_cells_that_are_mines
        ELSE {}

\* remove_mine_from_sentences_with_counts_greater_than_1 without its
\* membership test: every sentence with count > 1 is decremented
remove_mine_from_sentences_no_membership_test(st, cell) ==
    [st EXCEPT !.knowledge =
        [i \in 1 .. Len(@) |->
            IF @[i].count > 1
            THEN Sentence(@[i].cells \ {cell}, @[i].count - 1)
            ELSE @[i]]]

\* MinesweeperAI.remove_mine_from_sentences_with_counts_greater_than_1
remove_mine_from_sentences_with_counts_greater_than_1(st, cell) ==
    [st EXCEPT !.knowledge =
        [i \in 1 .. Len(@) |->
            IF @[i].count > 1 /\ cell \in @[i].cells
            THEN Sentence(@[i].cells \ {cell}, @[i].count - 1)
            ELSE @[i]]]

\* "for c in S: self.mark_safe(c)".  The order Python visits a set in is
\* arbitrary; mark_safe calls commute, so one order stands for all.
RECURSIVE MarkSafeEach(_, _)
MarkSafeEach(st, S) ==
    IF S = {} THEN st
    ELSE LET c == CHOOSE x \in S : TRUE
         IN  MarkSafeEach(mark_safe(st, c), S \ {c})

\* "for c in S: self.mark_mine(c)"
RECURSIVE MarkMineEach(_, _)
MarkMineEach(st, S) ==
    IF S = {} THEN st
    ELSE LET c == CHOOSE x \in S : TRUE
         IN  MarkMineEach(mark_mine(st, c), S \ {c})

\* A set's cells as a list, in the order a "for" loop visits them.
RECURSIVE SetToList(_)
SetToList(S) ==
    IF S = {} THEN <<>>
    ELSE LET c == CHOOSE x \in S : TRUE
         IN  <<c>> \o SetToList(S \ {c})

\* lines 219-228 with the known mines removed from the cells but the count
\* left as the clue gave it
new_sentence_count_kept(st, neighboring_cells, count) ==
    Sentence((neighboring_cells \ st.safes) \ st.mines, count)

\* add_knowledge, lines 218-228: the sentence built from the neighbours
\* that are neither known safe nor known mines.
new_sentence(st, neighboring_cells, count) ==
    LET unique_neighboring_cells == neighboring_cells \ st.safes
        intersection_neighboring_cells == unique_neighboring_cells \cap st.mines
    IN  IF Cardinality(intersection_neighboring_cells) > 0 /\ count > 0
        THEN Sentence(unique_neighboring_cells \ intersection_neighboring_cells,
                      count - Cardinality(intersection_neighboring_cells))
        ELSE Sentence(unique_neighboring_cells, count)

\* add_knowledge, lines 210-228: all neighbours safe, all neighbours mines,
\* or a new sentence appended to knowledge.
record_clue(st, cell, count) ==
    LET neighboring_cells == get_neighboring_cells(cell)
    IN  IF count = 0
        THEN MarkSafeEach(st, neighboring_cells)
        ELSE IF count = Cardinality(neighboring_cells)
        THEN MarkMineEach(st, neighboring_cells)
        ELSE [st EXCEPT !.knowledge =
                 Append(@, new_sentence(st, neighboring_cells, count))]

\* add_knowledge, lines 234-238: sentences with count > 0 lose every cell
\* that is in safes.
remove_safe_cells(st) ==
    [st EXCEPT !.knowledge =
        [i \in 1 .. Len(@) |->
            IF @[i].count > 0
            THEN Sentence(@[i].cells \ st.safes, @[i].count)
            ELSE @[i]]]

\* add_knowledge, lines 243-248: a_mine_cell_list, the cells of every
\* sentence with count > 0 and len(cells) == count, sentence by sentence
\* (a cell of two such sentences is listed twice).
RECURSIVE a_mine_cell_list(_, _)
a_mine_cell_list(st, i) ==
    IF i > Len(st.knowledge) THEN <<>>
    ELSE LET s == st.knowledge[i]
         IN  (IF s.count > 0 /\ Cardinality(s.cells) = s.count
              THEN SetToList(s.cells) ELSE <<>>)
             \o a_mine_cell_list(st, i + 1)

\* lines 249-251 with a loop that stops after its first cell: the other
\* cells of the list are never marked
mark_listed_mines_head(st, list) ==
    IF list = <<>> THEN st
    ELSE remove_mine_from_sentences_with_counts_greater_than_1(
            mark_mine(st, Head(list)), Head(list))

\* add_knowledge, lines 249-251: each listed cell is marked a mine and then
\* removed from the sentences with count > 1 that still hold it.
RECURSIVE mark_listed_mines(_, _)
mark_listed_mines(st, list) ==
    IF list = <<>> THEN st
    ELSE mark_listed_mines(
            remove_mine_from_sentences_with_counts_greater_than_1(
                mark_mine(st, Head(list)), Head(list)),
            Tail(list))

\* add_knowledge, lines 256-260: for a sentence with count == 1 and one
\* cell, if known_mines() is not empty the cell is popped from the sentence
\* and marked a mine.
RECURSIVE singleton_pass(_, _)
singleton_pass(st, i) ==
    IF i > Len(st.knowledge) THEN st
    ELSE LET s == st.knowledge[i]
         IN  IF /\ s.count = 1
                /\ Cardinality(s.cells) = 1
                /\ Cardinality(known_mines(s)) > 0
             THEN LET c == CHOOSE x \in s.cells : TRUE
                      popped == [st EXCEPT !.knowledge[i] = Sentence({}, s.count)]
                  IN  singleton_pass(mark_mine(popped, c), i + 1)
             ELSE singleton_pass(st, i + 1)

\* add_knowledge, lines 263-268: for a sentence with count == 0 and cells,
\* each cell of known_safes() is sent pop(); a cell is a tuple, which has no
\* pop, so the first such cell raises AttributeError.
zero_sweep_raises(st) ==
    \E i \in 1 .. Len(st.knowledge) :
        /\ st.knowledge[i].count = 0
        /\ Cardinality(st.knowledge[i].cells) > 0
        /\ known_safes(st.knowledge[i]) # {}

\* add_knowledge without its last step: no neighbour is marked safe once
\* the clue's mines are all known
neighbor_completion_skipped(st, cell, count) == st

\* add_knowledge, lines 273-278
neighbor_completion(st, cell, count) ==
    IF count > 0
    THEN MarkSafeEach(st, check_which_neighbor_cells_are_safe(st, cell, count))
    ELSE st

\* add_knowledge, lines 203-238: the engine as the exact-match pass finds
\* it: the move recorded, the cell marked safe, the clue recorded and the
\* safe cells removed from the sentences with count > 0.
before_exact_match(st, cell, count) ==
    LET s1 == mark_safe([st EXCEPT !.moves_made = @ \cup {cell}], cell)
        s2 == record_clue(s1, cell, count)
    IN  remove_safe_cells(s2)

\* MinesweeperAI.add_knowledge: the engine after the call and what the call
\* raised (None when it returned).
add_knowledge(st, cell, count) ==
    LET s3 == before_exact_match(st, cell, count)
        s4 == mark_listed_mines(s3, a_mine_cell_list(s3, 1))
        s5 == singleton_pass(s4, 1)
    IN  IF zero_sweep_raises(s5)
        THEN [st |-> s5, raised |-> AttributeError]
        ELSE [st |-> neighbor_completion(s5, cell, count), raised |-> None]

\* make_safe_move without the difference_update(self.moves_made)
make_safe_move_played(st) ==
    IF Cardinality(st.safes) < 1
    THEN {None}
    ELSE {ACell(c) : c \in st.safes}

\* MinesweeperAI.make_safe_move: the values the call can return
\* (set.pop() takes an arbitrary element).
make_safe_move(st) ==
    LET possible_safe_moves == st.safes \ st.moves_made
    IN  IF Cardinality(possible_safe_moves) < 1
        THEN {None}
        ELSE {ACell(c) : c \in possible_safe_moves}

\* make_random_move without the difference_update(self.moves_made)
make_random_move_played(st) ==
    IF \E i \in 1 .. Len(st.knowledge) :
            /\ st.knowledge[i].count = Cardinality(st.knowledge[i].cells)
            /\ Cardinality(st.knowledge[i].cells) > 0
    THEN {TypeError}
    ELSE IF Cardinality(Cells) > 0
    THEN {ACell(c) : c \in Cells}
    ELSE {None}

\* make_random_move, lines 318-321: the list of the cell sets of the
\* sentences with count == len(cells) > 0.
know_mine_cells(st) ==
    LET all_mine == SelectSeq(st.knowledge,
                              LAMBDA s : /\ s.count = Cardinality(s.cells)
                                         /\ Cardinality(s.cells) > 0)
    IN  [i \in 1 .. Len(all_mine) |-> all_mine[i].cells]

\* MinesweeperAI.make_random_move: the outcomes of the call.  Line 325,
\* set(know_mine_cells), hashes the list's elements; they are Python sets,
\* which are unhashable, so it raises TypeError unless the list is empty,
\* and set([]) is the empty set, which removes nothing from the candidates.
make_random_move(st) ==
    LET virtual_board_cells == Cells \ st.moves_made
    IN  IF Len(know_mine_cells(st)) > 0
        THEN {TypeError}
        ELSE IF Cardinality(virtual_board_cells) > 0
        THEN {ACell(c) : c \in virtual_board_cells}
        ELSE {None}

\* ---------------------------------------------------------------- state

\* The engine object, read from the variables.
AI == [moves_made |-> moves_made, mines |-> mines, safes |-> safes,
       knowledge |-> knowledge]

\* The engine object, written back to the variables.
SetAI(st) ==
    /\ moves_made' = st.moves_made
    /\ mines' = st.mines
    /\ safes' = st.safes
    /\ knowledge' = st.knowledge

Call(op, cell, count, ret) == [op |-> op, cell |-> cell, count |-> count, ret |-> ret]

\* The board sizes: the height and width given to both constructors.
Shapes == { hw \in (1 .. MaxSide) \X (1 .. MaxSide) : hw[1] * hw[2] <= MaxCells }

\* Minesweeper.__init__: mines placed on any cells of the board.
Boards(h, w) == SUBSET ((0 .. h - 1) \X (0 .. w - 1))

\* Sentence.__init__ on any cell set and any count
Sentences(h, w) ==
    { Sentence(cs, n) :
        cs \in { x \in SUBSET ((0 .. h - 1) \X (0 .. w - 1)) : Cardinality(x) <= MaxLen },
        n \in -1 .. MaxLen + 1 }

\* A fresh game: Minesweeper(...) and MinesweeperAI(...).
Init ==
    /\ \E hw \in Shapes :
        /\ height = hw[1]
        /\ width = hw[2]
        /\ board \in Boards(hw[1], hw[2])
    /\ moves_made = NewAI.moves_made
    /\ mines = NewAI.mines
    /\ safes = NewAI.safes
    /\ knowledge = NewAI.knowledge
    /\ calls = 0
    /\ last = Call("init", NoCell, 0, None)
    /\ sen = Sentence({}, 0)
    /\ before = Sentence({}, 0)

\* ai.add_knowledge(cell, game.nearby_mines(cell)) on a cell that is not a
\* mine and has not been played: a consistent clue.
AddKnowledge ==
    \E cell \in Cells \ moves_made :
        /\ calls < MaxCalls
        /\ ~is_mine(board, cell)
        /\ LET count == nearby_mines(board, cell)
               r == add_knowledge(AI, cell, count)
           IN  /\ SetAI(r.st)
               /\ last' = Call("add_knowledge", cell, count, r.raised)
        /\ calls' = calls + 1
        /\ UNCHANGED <<height, width, board, sen, before>>

\* make_safe_move working on self.safes itself instead of a copy: the
\* difference_update and the pop then empty the engine's own set
MakeSafeMove_nocopy ==
    \E r \in make_safe_move(AI) :
        /\ last' = Call("make_safe_move", NoCell, 0, r)
        /\ safes' = (safes \ moves_made) \ {r.cell}
        /\ UNCHANGED <<height, width, board, moves_made, mines, knowledge, calls, sen, before>>

\* ai.make_safe_move()
MakeSafeMove ==
    \E r \in make_safe_move(AI) :
        /\ last' = Call("make_safe_move", NoCell, 0, r)
        /\ UNCHANGED <<height, width, board, moves_made, mines, safes, knowledge, calls, sen, before>>

\* ai.make_random_move()
MakeRandomMove ==
    \E r \in make_random_move(AI) :
        /\ last' = Call("make_random_move", NoCell, 0, r)
        /\ UNCHANGED <<height, width, board, moves_made, mines, safes, knowledge, calls, sen, before>>

Next == AddKnowledge \/ MakeSafeMove \/ MakeRandomMove

Spec == Init /\ [][Next]_vars

\* ----------------------------------------------- the engine driven directly

\* MinesweeperAI(...) alone: no game supplies the clues.
InitDirect ==
    /\ \E hw \in Shapes :
        /\ height = hw[1]
        /\ width = hw[2]
    /\ board = {}
    /\ moves_made = NewAI.moves_made
    /\ mines = NewAI.mines
    /\ safes = NewAI.safes
    /\ knowledge = NewAI.knowledge
    /\ calls = 0
    /\ last = Call("init", NoCell, 0, None)
    /\ sen = Sentence({}, 0)
    /\ before = Sentence({}, 0)

\* ai.add_knowledge(cell, count) with any cell of the board and any count
DirectAddKnowledge ==
    \E cell \in Cells, count \in -1 .. MaxCount :
        /\ calls < MaxDirectCalls
        /\ LET r == add_knowledge(AI, cell, count)
           IN  /\ SetAI(r.st)
               /\ last' = Call("add_knowledge", cell, count, r.raised)
        /\ calls' = calls + 1
        /\ UNCHANGED <<height, width, board, sen, before>>

\* ai.mark_mine(cell)
DirectMarkMine ==
    \E cell \in Cells :
        /\ calls < MaxDirectCalls
        /\ SetAI(mark_mine(AI, cell))
        /\ last' = Call("mark_mine", cell, 0, None)
        /\ calls' = calls + 1
        /\ UNCHANGED <<height, width, board, sen, before>>

\* ai.mark_safe(cell)
DirectMarkSafe ==
    \E cell \in Cells :
        /\ calls < MaxDirectCalls
        /\ SetAI(mark_safe(AI, cell))
        /\ last' = Call("mark_safe", cell, 0, None)
        /\ calls' = calls + 1
        /\ UNCHANGED <<height, width, board, sen, before>>

\* The state-changing methods, called in any order with any arguments.
NextDirect ==
    \/ DirectAddKnowledge
    \/ DirectMarkMine
    \/ DirectMarkSafe

SpecDirect == InitDirect /\ [][NextDirect]_vars

\* ------------------------------------------------- a Sentence on its own

\* Sentence(cells, count) for any cells of a board and any count
InitSentence ==
    /\ \E hw \in Shapes :
        /\ height = hw[1]
        /\ width = hw[2]
        /\ sen \in Sentences(hw[1], hw[2])
    /\ board = {}
    /\ moves_made = NewAI.moves_made
    /\ mines = NewAI.mines
    /\ safes = NewAI.safes
    /\ knowledge = NewAI.knowledge
    /\ calls = 0
    /\ last = Call("init", NoCell, 0, None)
    /\ before = sen

\* sentence.known_mines()
CallKnownMines ==
    /\ last' = Call("known_mines", NoCell, 0, ASet(known_mines(sen)))
    /\ UNCHANGED <<height, width, board, moves_made, mines, safes, knowledge, calls, sen, before>>

\* sentence.known_safes()
CallKnownSafes ==
    /\ last' = Call("known_safes", NoCell, 0, ASet(known_safes(sen)))
    /\ UNCHANGED <<height, width, board, moves_made, mines, safes, knowledge, calls, sen, before>>

\* sentence.mark_mine(cell)
CallSentenceMarkMine ==
    \E cell \in Cells :
        /\ sen' = Sentence_mark_mine(sen, cell)
        /\ before' = sen
        /\ last' = Call("Sentence.mark_mine", cell, 0, None)
        /\ UNCHANGED <<height, width, board, moves_made, mines, safes, knowledge, calls>>

\* sentence.mark_safe(cell)
CallSentenceMarkSafe ==
    \E cell \in Cells :
        /\ sen' = Sentence_mark_safe(sen, cell)
        /\ before' = sen
        /\ last' = Call("Sentence.mark_safe", cell, 0, None)
        /\ UNCHANGED <<height, width, board, moves_made, mines, safes, knowledge, calls>>

NextSentence ==
    \/ CallKnownMines
    \/ CallKnownSafes
    \/ CallSentenceMarkMine
    \/ CallSentenceMarkSafe

SpecSentence == InitSentence /\ [][NextSentence]_vars

\* ------------------------------------------------------------ properties

\* The in-bounds cells around a cell, the cell itself excluded.
Adjacent(cell) ==
    { c \in Cells : /\ c # cell
                    /\ c[1] - cell[1] \in -1 .. 1
                    /\ c[2] - cell[2] \in -1 .. 1 }

\* A sentence all of whose cells are mines: count == |cells| > 0.
AllMine(s) == s.count = Cardinality(s.cells) /\ Cardinality(s.cells) > 0

\* The cells of the all-mine sentences of knowledge.
AllMineCells == UNION { knowledge[i].cells : i \in { j \in 1 .. Len(knowledge) : AllMine(knowledge[j]) } }

Queries == {"make_safe_move", "make_random_move"}

\* C1: with consistent clues, after every add_knowledge call no cell is in
\* both safes and mines.
C1_SafesMinesDisjoint == safes \cap mines = {}

\* C1 witness: an add_knowledge call has returned and the engine knows both
\* safe cells other than the revealed ones and mines.
C1_Witness ==
    /\ last.op = "add_knowledge"
    /\ mines # {}
    /\ safes \ moves_made # {}

\* C2: known_mines() returns the sentence's cells if count == |cells| > 0 and
\* the empty set otherwise.
C2_KnownMinesIffAllMine ==
    last.op = "known_mines" =>
        last.ret = ASet(IF AllMine(sen) THEN sen.cells ELSE {})

\* C3: known_safes() returns the sentence's cells if count == 0 and the
\* empty set otherwise.
C3_KnownSafesIffZero ==
    last.op = "known_safes" =>
        last.ret = ASet(IF sen.count = 0 THEN sen.cells ELSE {})

\* C4: make_safe_move returns a cell of safes that is not in moves_made when
\* there is one, and None exactly when there is none.
C4_SafeMoveResult ==
    last.op = "make_safe_move" =>
        IF safes \ moves_made = {}
        THEN last.ret = None
        ELSE last.ret.kind = "cell" /\ last.ret.cell \in safes \ moves_made

\* C4 witness: make_safe_move returned a cell while another safe cell had
\* already been played.
C4_Witness ==
    /\ last.op = "make_safe_move"
    /\ last.ret.kind = "cell"
    /\ safes \cap moves_made # {}

\* C5: a cell returned by make_random_move is a cell of the board, is not in
\* moves_made and belongs to no sentence with count == |cells| > 0.
C5_RandomMoveAvoids ==
    (last.op = "make_random_move" /\ last.ret.kind = "cell") =>
        /\ last.ret.cell \in Cells
        /\ last.ret.cell \notin moves_made
        /\ last.ret.cell \notin AllMineCells

\* C5 witness: make_random_move returned a cell after moves were made and
\* sentences recorded.
C5_Witness ==
    /\ last.op = "make_random_move"
    /\ last.ret.kind = "cell"
    /\ moves_made # {}
    /\ mines # {}
    /\ knowledge # <<>>

\* C6: make_random_move always completes: it returns None if and only if no
\* board cell lies outside moves_made and outside every all-mine sentence,
\* and otherwise returns such a cell.
C6_RandomMoveCompletes ==
    last.op = "make_random_move" =>
        LET eligible == (Cells \ moves_made) \ AllMineCells
        IN  IF eligible = {}
            THEN last.ret = None
            ELSE last.ret.kind = "cell" /\ last.ret.cell \in eligible

\* C7: make_safe_move and make_random_move leave safes, mines, moves_made
\* and every sentence of knowledge as they were.
C7_QueriesChangeNothing ==
    [][last'.op \in Queries => UNCHANGED <<safes, mines, moves_made, knowledge>>]_vars

\* C7 witness: a query has run on an engine that holds safes, mines and a
\* sentence with cells.
C7_Witness ==
    /\ last.op \in Queries
    /\ safes \ moves_made # {}
    /\ mines # {}
    /\ \E i \in 1 .. Len(knowledge) : knowledge[i].cells # {}

\* C8: after add_knowledge(cell, 0) every in-bounds neighbour of the cell is
\* in safes, and the cell is in safes and in moves_made.
C8_ZeroClueNeighboursSafe ==
    (last.op = "add_knowledge" /\ last.count = 0) =>
        /\ Adjacent(last.cell) \subseteq safes
        /\ last.cell \in safes
        /\ last.cell \in moves_made

\* C8 witness: on a 3x3 board the corner (0,0) was revealed with count 0
\* and its three neighbours are in safes.
C8_Witness ==
    /\ height = 3 /\ width = 3
    /\ last = Call("add_knowledge", <<0, 0>>, 0, None)
    /\ {<<0, 1>>, <<1, 0>>, <<1, 1>>} \subseteq safes

\* C9: add_knowledge on a cell already in moves_made, or with a count outside
\* 0 .. number of in-bounds neighbours, is rejected and changes nothing.
C9_InvalidClueRejected ==
    [][(/\ last'.op = "add_knowledge"
        /\ \/ last'.cell \in moves_made
           \/ last'.count < 0
           \/ last'.count > Cardinality(Adjacent(last'.cell)))
       => (/\ last'.ret # None
           /\ UNCHANGED <<safes, mines, moves_made, knowledge>>)]_vars

\* C10: mark_safe on a cell that is in mines is refused: the cell is not
\* added to safes, and safes and mines stay disjoint.
C10_MineNotMarkedSafe ==
    [][(last'.op = "mark_safe" /\ last'.cell \in mines /\ safes \cap mines = {})
       => (last'.cell \notin safes' /\ safes' \cap mines' = {})]_vars

\* C11: engine mark_safe and mark_mine are idempotent: on any engine state
\* and any cell, a second call with the same cell leaves safes, mines,
\* moves_made and every sentence (cells and count) as the first call left
\* them.
C11_MarksIdempotent ==
    \A c \in Cells :
        /\ mark_mine(mark_mine(AI, c), c) = mark_mine(AI, c)
        /\ mark_safe(mark_safe(AI, c), c) = mark_safe(AI, c)

\* C11 witness: mark_mine has just run on an engine that holds a sentence
\* with cells left and count 0: the call took its cell out of that sentence
\* and lowered the count to 0.
C11_Witness ==
    /\ last.op = "mark_mine"
    /\ last.cell \in mines
    /\ \E i \in 1 .. Len(knowledge) :
        /\ knowledge[i].count = 0
        /\ knowledge[i].cells # {}

\* C12: when add_knowledge returns under consistent clues, no sentence in
\* knowledge has count 0 together with a nonempty cell set (the zero-count
\* sweep has marked every such cell safe, which empties the sentence).
C12_NoZeroCountSentenceLeft ==
    last.op = "add_knowledge" =>
        \A i \in 1 .. Len(knowledge) :
            ~(knowledge[i].count = 0 /\ knowledge[i].cells # {})

\* C13: in every add_knowledge call with consistent clues, each sentence
\* that has count = |cells| > 0 when the exact-match pass runs (singletons
\* and sentences that were already all-mine included) has all those cells in
\* mines and in moves_made when the call returns, and holds none of them
\* any more.
C13_ExactMatchMarksMines ==
    [][ last'.op = "add_knowledge" =>
          \A s3 \in {before_exact_match(AI, last'.cell, last'.count)} :
              \A i \in 1 .. Len(s3.knowledge) :
                  AllMine(s3.knowledge[i]) =>
                      /\ s3.knowledge[i].cells \subseteq mines'
                      /\ s3.knowledge[i].cells \subseteq moves_made'
                      /\ knowledge'[i].cells \cap s3.knowledge[i].cells = {}
      ]_vars

\* C13 witness: the second add_knowledge call has returned with mines known
\* although no clue so far equalled the number of its neighbours: the first
\* call cannot find a mine that way, so the exact-match pass of the second
\* call marked them.
C13_Witness ==
    /\ last.op = "add_knowledge"
    /\ calls = 2
    /\ mines # {}
    /\ \A c \in moves_made \ mines :
           nearby_mines(board, c) # Cardinality(Adjacent(c))

\* the engine r is the engine st with cell c marked a mine once: sentences
\* that held c lose it and 1 of their count, the others are unchanged, c is
\* in mines and in moves_made, safes is untouched
MarkedOnce(st, r, c) ==
    /\ r.mines = st.mines \cup {c}
    /\ r.moves_made = st.moves_made \cup {c}
    /\ r.safes = st.safes
    /\ Len(r.knowledge) = Len(st.knowledge)
    /\ \A i \in 1 .. Len(st.knowledge) :
           r.knowledge[i] =
               IF c \in st.knowledge[i].cells
               THEN Sentence(st.knowledge[i].cells \ {c}, st.knowledge[i].count - 1)
               ELSE st.knowledge[i]

\* C14: whenever the engine marks a cell a mine, by mark_mine itself or by
\* each step of add_knowledge's exact-match pass (mark_mine followed by
\* remove_mine_from_sentences_with_counts_greater_than_1 for the same cell),
\* every sentence that held the cell loses it and exactly 1 of its count,
\* every other sentence is unchanged, and the cell is in mines and in
\* moves_made.
C14_MarkMineDecrementsOnce ==
    [][ /\ last'.op = "mark_mine" =>
              \A st \in {AI} : \A r \in {AI'} : MarkedOnce(st, r, last'.cell)
        /\ last'.op = "add_knowledge" =>
              \A s3 \in {before_exact_match(AI, last'.cell, last'.count)} :
              \A list \in {a_mine_cell_list(s3, 1)} :
              \A k \in 1 .. Len(list) :
              \A st \in {mark_listed_mines(s3, SubSeq(list, 1, k - 1))} :
              \A r \in {mark_listed_mines(st, <<list[k]>>)} :
                  MarkedOnce(st, r, list[k])
      ]_vars

\* C14 witness: two add_knowledge calls each appended a sentence and the
\* second one's exact-match pass marked a mine (nothing else can have put a
\* cell in mines when both calls appended).
C14_Witness ==
    /\ last.op = "add_knowledge"
    /\ calls = 2
    /\ Len(knowledge) = 2
    /\ mines # {}

\* C15: after any add_knowledge call no sentence in knowledge has an empty
\* cell set: an empty new sentence is not appended and a sentence whose
\* cells are all resolved is discarded.
C15_NoEmptySentence ==
    last.op = "add_knowledge" =>
        \A i \in 1 .. Len(knowledge) : knowledge[i].cells # {}

\* C16: when add_knowledge(cell, count) with count > 0 has returned and the
\* number of the cell's in-bounds neighbours in mines equals count, every
\* other in-bounds neighbour is in safes and in no sentence.
C16_NeighbourCompletion ==
    (/\ last.op = "add_knowledge"
     /\ last.count > 0
     /\ Cardinality(Adjacent(last.cell) \cap mines) = last.count)
    => /\ Adjacent(last.cell) \ mines \subseteq safes
       /\ \A i \in 1 .. Len(knowledge) :
              knowledge[i].cells \cap (Adjacent(last.cell) \ mines) = {}

\* C16 witness: the second call, with a positive clue below the number of
\* neighbours, has returned with all the clue's mines known and a neighbour
\* in safes that was never played, on a game with no zero clue so far: only
\* neighbour completion in this call can have marked that neighbour.
C16_Witness ==
    /\ last.op = "add_knowledge"
    /\ calls = 2
    /\ last.count > 0
    /\ last.count < Cardinality(Adjacent(last.cell))
    /\ Cardinality(Adjacent(last.cell) \cap mines) = last.count
    /\ (Adjacent(last.cell) \cap safes) \ moves_made # {}
    /\ \A c \in moves_made \ mines : nearby_mines(board, c) > 0

\* C17: under consistent clues every sentence in knowledge satisfies
\* 0 <= count <= |cells| after every add_knowledge call (so a sentence with
\* no cells has count 0).
C17_CountWithinCells ==
    \A i \in 1 .. Len(knowledge) :
        /\ 0 <= knowledge[i].count
        /\ knowledge[i].count <= Cardinality(knowledge[i].cells)

\* C17 witness: a call has appended a sentence for a clue one of whose
\* neighbours is a known mine, and the sentence still has cells and a
\* positive count below the clue: its count was lowered as the mine left
\* its cells.
C17_Witness ==
    /\ last.op = "add_knowledge"
    /\ last.count # Cardinality(Adjacent(last.cell))
    /\ Adjacent(last.cell) \cap mines # {}
    /\ Len(knowledge) > 0
    /\ knowledge[Len(knowledge)].cells # {}
    /\ knowledge[Len(knowledge)].count >= 1
    /\ knowledge[Len(knowledge)].count < last.count

\* the sentence invariant: 0 <= count <= |cells|
WellFormed(s) == 0 <= s.count /\ s.count <= Cardinality(s.cells)

\* what Sentence.mark_mine(cell) made of the sentence "before": a member
\* cell removed and the count one less, a non-member cell changing nothing
MarkMineEffect ==
    sen = IF last.cell \in before.cells
          THEN Sentence(before.cells \ {last.cell}, before.count - 1)
          ELSE before

C19_SoundAgainstBoard ==
    /\ mines \subseteq board
    /\ safes \cap board = {}
    /\ \A i \in 1 .. Len(knowledge) :
           knowledge[i].count = Cardinality(knowledge[i].cells \cap board)

\* C19 witness: after an add_knowledge call the engine knows a mine, knows a
\* safe cell nobody played, and holds an undecided sentence (some of its
\* cells are mines, not all).
C19_Witness ==
    /\ last.op = "add_knowledge"
    /\ mines # {}
    /\ safes \ moves_made # {}
    /\ \E i \in 1 .. Len(knowledge) :
           /\ knowledge[i].count >= 1
           /\ knowledge[i].count < Cardinality(knowledge[i].cells)

\* the call add_knowledge(cell, count) appends a sentence: the clue is
\* neither 0 nor the number of the cell's neighbours
Appends(cell, count) == count # 0 /\ count # Cardinality(Adjacent(cell))

\* C20: under consistent clues, after every add_knowledge call no sentence
\* in knowledge holds a cell that is in safes or in mines; and when the
\* call appends a sentence, that sentence is built as the clue cell's
\* in-bounds neighbours minus safes minus mines with the clue count minus
\* the number of neighbours already in mines, and is still of that form,
\* over the safes and mines known at the end, when the call returns.
C20_KnowledgeNormalised ==
    [][ last'.op = "add_knowledge" =>
          /\ \A i \in 1 .. Len(knowledge') :
                 knowledge'[i].cells \cap (safes' \cup mines') = {}
          /\ Appends(last'.cell, last'.count) =>
                LET N == Adjacent(last'.cell)
                    s1 == mark_safe([AI EXCEPT !.moves_made = @ \cup {last'.cell}],
                                    last'.cell)
                IN  /\ Len(knowledge') = Len(knowledge) + 1
                    /\ new_sentence(s1, get_neighboring_cells(last'.cell), last'.count)
                         = Sentence((N \ (safes \cup {last'.cell})) \ mines,
                                    last'.count - Cardinality(N \cap mines))
                    /\ knowledge'[Len(knowledge')]
                         = Sentence((N \ safes') \ mines',
                                    last'.count - Cardinality(N \cap mines'))
      ]_vars

\* C20 witness: a call has appended a sentence for a clue with both a known
\* mine and a known safe cell among its neighbours, and the sentence still
\* has cells, while an older sentence is also still undecided.
C20_Witness ==
    /\ last.op = "add_knowledge"
    /\ Appends(last.cell, last.count)
    /\ Adjacent(last.cell) \cap mines # {}
    /\ Adjacent(last.cell) \cap safes # {}
    /\ Len(knowledge) >= 2
    /\ knowledge[Len(knowledge)].cells # {}
    /\ knowledge[1].cells # {}


====
